---- MODULE Spec2Model ----
(***************************************************************************)
(* A model of dvm-helper (src/dvm-helper/dvm-helper.go): the docker        *)
(* version manager's commands as atomic actions over the managed           *)
(* directory (installed versions, alias records, emitted PATH script) and  *)
(* the calling shell's PATH.                                               *)
(***************************************************************************)
EXTENDS Integers, Sequences, FiniteSets, TLC

(***************************************************************************)
(* Bounds of the model.                                                    *)
(***************************************************************************)
\* longest PATH (in entries) the shell starts with
MaxPath == 2
\* number of install() calls one command may make before it is cut off
MaxInstalls == 2

(***************************************************************************)
(* Exit codes (const block, lines 32-36); 0 is a normal return.            *)
(***************************************************************************)
retCodeInvalidArgument == 127
retCodeInvalidOperation == 3
retCodeRuntimeError == 1
retCodeSuccess == 0
\* no exit code: a command still executing
Running == retCodeSuccess - 1
\* no exit code: a command cut off, unfinished, after MaxInstalls install() calls
CutOff == retCodeSuccess - 2

None == "<none>"

(***************************************************************************)
(* Strings.  State holds TLA+ strings; the matching code (regexp, glob,    *)
(* TrimSpace) works on their characters, given by Chars.                   *)
(***************************************************************************)
Strings ==
  { "", " ", "1.9.0", "1.10.0", "0.9.0", "2.0.0", "10.0.0",
    "experimental", "system", "latest", "1.*", "*", "1.9.0*",
    "v1.9.0", "v1.10.0", "v0.9.0", "v2.0.0", "v10.0.0", "v1.9", "v1.9.0-rc1" }

Chars(s) ==
  CASE s = ""             -> << >>
    [] s = " "            -> <<" ">>
    [] s = "1.9.0"        -> <<"1", ".", "9", ".", "0">>
    [] s = "1.10.0"       -> <<"1", ".", "1", "0", ".", "0">>
    [] s = "0.9.0"        -> <<"0", ".", "9", ".", "0">>
    [] s = "2.0.0"        -> <<"2", ".", "0", ".", "0">>
    [] s = "10.0.0"       -> <<"1", "0", ".", "0", ".", "0">>
    [] s = "experimental" -> <<"e", "x", "p", "e", "r", "i", "m", "e", "n", "t", "a", "l">>
    [] s = "system"       -> <<"s", "y", "s", "t", "e", "m">>
    [] s = "latest"       -> <<"l", "a", "t", "e", "s", "t">>
    [] s = "1.*"          -> <<"1", ".", "*">>
    [] s = "*"            -> <<"*">>
    [] s = "1.9.0*"       -> <<"1", ".", "9", ".", "0", "*">>
    [] s = "v1.9.0"       -> <<"v", "1", ".", "9", ".", "0">>
    [] s = "v1.10.0"      -> <<"v", "1", ".", "1", "0", ".", "0">>
    [] s = "v0.9.0"       -> <<"v", "0", ".", "9", ".", "0">>
    [] s = "v2.0.0"       -> <<"v", "2", ".", "0", ".", "0">>
    [] s = "v10.0.0"      -> <<"v", "1", "0", ".", "0", ".", "0">>
    [] s = "v1.9"         -> <<"v", "1", ".", "9">>
    [] s = "v1.9.0-rc1"   -> <<"v", "1", ".", "9", ".", "0", "-", "r", "c", "1">>

Str(t) == CHOOSE s \in Strings : Chars(s) = t

Digits == {"0", "1", "2", "3", "4", "5", "6", "7", "8", "9"}
NonZeroDigits == Digits \ {"0"}

\* the index just after the longest run of class characters starting at t[i]
RECURSIVE RunEnd(_, _, _)
RunEnd(t, i, class) ==
  IF i <= Len(t) /\ t[i] \in class THEN RunEnd(t, i + 1, class) ELSE i

(***************************************************************************)
(* regexp: the patterns met here are built of literal characters, "." and  *)
(* a postfix "*"; matching is unanchored (MatchString).                    *)
(***************************************************************************)
\* regexp.Compile fails on a repetition operator with nothing to repeat
regexpCompiles(p) ==
  \A i \in 1..Len(p) : p[i] = "*" => (i > 1 /\ p[i - 1] # "*")

RECURSIVE regexpMatchHere(_, _, _, _)
regexpMatchHere(p, i, t, j) ==
  IF i > Len(p) THEN TRUE
  ELSE IF i < Len(p) /\ p[i + 1] = "*"
    THEN \E k \in j..(Len(t) + 1) :
           /\ \A m \in j..(k - 1) : p[i] = "." \/ p[i] = t[m]
           /\ regexpMatchHere(p, i + 2, t, k)
  ELSE IF j <= Len(t) /\ (p[i] = "." \/ p[i] = t[j])
    THEN regexpMatchHere(p, i + 1, t, j + 1)
  ELSE FALSE

regexpMatchString(p, t) == \E j \in 1..(Len(t) + 1) : regexpMatchHere(p, 1, t, j)

(***************************************************************************)
(* filepath.Glob on one path segment / glob.Glob: "*" matches any run of   *)
(* characters, "?" (filepath only) one character, the match is anchored.   *)
(***************************************************************************)
RECURSIVE globMatchHere(_, _, _, _)
globMatchHere(p, i, n, j) ==
  IF i > Len(p) THEN j > Len(n)
  ELSE IF p[i] = "*"
    THEN \E k \in j..(Len(n) + 1) : globMatchHere(p, i + 1, n, k)
  ELSE IF j <= Len(n) /\ (p[i] = "?" \/ p[i] = n[j])
    THEN globMatchHere(p, i + 1, n, j + 1)
  ELSE FALSE

globMatch(pattern, name) == globMatchHere(Chars(pattern), 1, Chars(name), 1)

\* strings.TrimSpace
RECURSIVE trimLeft(_)
trimLeft(t) == IF t # << >> /\ Head(t) = " " THEN trimLeft(Tail(t)) ELSE t
RECURSIVE trimRight(_)
trimRight(t) ==
  IF t # << >> /\ t[Len(t)] = " " THEN trimRight(SubSeq(t, 1, Len(t) - 1)) ELSE t
TrimSpace(s) == Str(trimRight(trimLeft(Chars(s))))

(***************************************************************************)
(* RemoteCatalog                                                           *)
(***************************************************************************)
\* versionRegex.FindStringSubmatch for `^v([1-9]+\.\d+\.\d+)$`:
\* <<whole match, group 1>> or the empty sequence
versionRegexFindStringSubmatch(t) ==
  LET a == RunEnd(t, 2, NonZeroDigits)
      b == RunEnd(t, a + 1, Digits)
      c == RunEnd(t, b + 1, Digits)
  IN IF /\ Len(t) >= 1 /\ t[1] = "v"
        /\ a > 2 /\ a <= Len(t) /\ t[a] = "."
        /\ b > a + 1 /\ b <= Len(t) /\ t[b] = "."
        /\ c > b + 1 /\ c = Len(t) + 1
     THEN <<t, SubSeq(t, 2, Len(t))>>
     ELSE << >>

\* the loop of getAvailableVersions over the fetched tags, the pattern
\* compiled; sort.Strings orders the result, which is kept as a set here
filterTags(tagList, pattern) ==
  { Str(versionRegexFindStringSubmatch(Chars(tag))[2]) :
      tag \in { g \in tagList :
                  /\ Len(versionRegexFindStringSubmatch(Chars(g))) > 1
                  /\ regexpMatchString(Chars(pattern), Chars(g)) } }

(***************************************************************************)
(* The environment: the upstream tag list, the builds the mirrors serve.   *)
(***************************************************************************)
\* the tag list upstream serves while commands run
MainTags == { "v1.9.0", "v1.10.0", "v0.9.0" }
\* the tags an upstream list may hold
TagUniverse ==
  { "v1.9.0", "v1.10.0", "v0.9.0", "v2.0.0", "v10.0.0", "v1.9", "v1.9.0-rc1" }
\* what an experimental binary prints for -v, "" being output that
\* getDockerVersion's pattern does not match
Builds == { "1.11.0-dev", "1.12.0-dev", "" }
\* what one install() call meets: no network, a failed download, or the
\* build the experimental mirror serves (a release binary reports its tag)
InstallOutcomes == { "netfail", "dlfail" } \cup Builds
\* the docker client installed outside dvm, if any
SysDockers == { None, "1.8.3" }
\* values of $DOCKER_VERSION
DockerVersionEnvs == { "", " ", "1.9.0" }
\* the latest dvm release as GitHub reports it: the query fails, or a tag
\* ("nightly" is no semantic version)
ReleaseOutcomes == { "fail", "0.1.0", "0.2.0", "nightly" }

RECURSIVE SeqsUpTo(_, _)
SeqsUpTo(S, n) ==
  IF n = 0 THEN { << >> }
  ELSE LET shorter == SeqsUpTo(S, n - 1)
       IN shorter \cup { <<x>> \o q : x \in S, q \in { r \in shorter : Len(r) = n - 1 } }

(***************************************************************************)
(* State.                                                                  *)
(***************************************************************************)
VARIABLES
  installed,  \* <dvmDir>/bin/docker: directory name -> what its binary reports
  aliases,    \* <dvmDir>/alias: alias name -> file contents
  script,     \* <dvmDir>/.tmp/dvm-output.*: << >> or <<the PATH it assigns>>
  shellPath,  \* PATH of the calling shell, inherited by each invocation
  sysDocker,  \* the docker client in /usr/bin (None if there is none)
  tags,       \* the upstream tag list
  dvmVersion, \* version of the running dvm-helper executable
  last        \* the last command: what it was, its exit code, what it did

vars == <<installed, aliases, script, shellPath, sysDocker, tags, dvmVersion, last>>

(***************************************************************************)
(* PATH entries and lookups.                                               *)
(***************************************************************************)
getVersionDir(version) == [managed |-> TRUE, dir |-> version]
SysBin == [managed |-> FALSE, dir |-> "/usr/bin"]
OtherBin == [managed |-> FALSE, dir |-> "/bin"]
\* exec.LookPath's path when it finds nothing
NoPath == [managed |-> FALSE, dir |-> ""]

\* removePath(getCleanDvmPathRegex()): drops the entries under the bin root
removePath(path) == SelectSeq(path, LAMBDA e : ~e.managed)
prependPath(e, path) == <<e>> \o path

\* is there a docker executable in directory e
hasDocker(c, e) ==
  IF e.managed THEN e.dir \in DOMAIN c.inst ELSE e = SysBin /\ sysDocker # None

\* exec.LookPath("docker") under the process PATH `path`
LookPath(c, path) ==
  LET hits == { i \in 1..Len(path) : hasDocker(c, path[i]) }
  IN IF hits = {} THEN NoPath
     ELSE path[CHOOSE i \in hits : \A k \in hits : i <= k]

getCurrentDockerPath(c) ==
  LET p == LookPath(c, c.path) IN [path |-> p, err |-> p = NoPath]

\* runs the binary at e with -v and parses `^Docker version (.*),`
getDockerVersion(c, e) ==
  LET out == IF e.managed THEN c.inst[e.dir] ELSE sysDocker
  IN [version |-> out, err |-> out = ""]

\* os.Getenv("PATH") / os.Setenv("PATH", path) of the process
getPath(c) == c.path
setPath(c, path) == [c EXCEPT !.path = path]

\* a removal that stops after the first managed entry
removePreviousFirstOnly(c) ==
  LET path == getPath(c)
      hits == { i \in 1..Len(path) : path[i].managed }
      first == CHOOSE i \in hits : \A k \in hits : i <= k
  IN IF hits = {} THEN c
     ELSE setPath(c, SubSeq(path, 1, first - 1) \o SubSeq(path, first + 1, Len(path)))

removePreviousDvmVersionFromPath(c) == setPath(c, removePath(getPath(c)))

\* getSystemDockerPath that leaves the PATH stripped
getSystemDockerPathNoRestore(c) ==
  LET stripped == removePreviousDvmVersionFromPath(c)
      p == LookPath(stripped, getPath(stripped))
  IN [path |-> p, err |-> p = NoPath, proc |-> stripped]

\* strips the managed entries, looks docker up, restores the PATH; proc
\* is the process as the call leaves it
getSystemDockerPath(c) ==
  LET originalPath == getPath(c)
      stripped == removePreviousDvmVersionFromPath(c)
      p == LookPath(stripped, getPath(stripped))
  IN [path |-> p, err |-> p = NoPath, proc |-> setPath(stripped, originalPath)]

getSystemDockerVersion(c) ==
  LET sys == getSystemDockerPath(c)
      probed == getDockerVersion(sys.proc, sys.path)
  IN IF sys.err THEN [version |-> "", err |-> TRUE, proc |-> sys.proc]
     ELSE [version |-> probed.version, err |-> probed.err, proc |-> sys.proc]

getExperimentalDockerPath(c) ==
  [path |-> getVersionDir("experimental"), err |-> "experimental" \notin DOMAIN c.inst]

getExperimentalDockerVersion(c) ==
  LET exp == getExperimentalDockerPath(c)
  IN IF exp.err THEN [version |-> "", err |-> TRUE]
     ELSE getDockerVersion(c, exp.path)

\* proc is the process as the call leaves it
getCurrentDockerVersion(c) ==
  LET cur == getCurrentDockerPath(c)
      current == getDockerVersion(c, cur.path).version
      sys == getSystemDockerPath(c)
      asSystem == IF cur.path = sys.path
                  THEN "system (" \o current \o ")" ELSE current
      asExperimental == IF cur.path = getExperimentalDockerPath(sys.proc).path
                        THEN "experimental (" \o asSystem \o ")" ELSE asSystem
  IN IF cur.err THEN [version |-> "", err |-> TRUE, proc |-> c]
     ELSE [version |-> asExperimental, err |-> FALSE, proc |-> sys.proc]

\* sort.Strings orders the result, which is kept as a set here; proc is
\* the process as the call leaves it
getInstalledVersions(c, pattern) ==
  LET versions == { d \in DOMAIN c.inst : globMatch(pattern, d) }
      listed == { d \in versions :
                    d = "experimental" => ~getExperimentalDockerVersion(c).err }
      names == { IF d = "experimental"
                 THEN "experimental (" \o getExperimentalDockerVersion(c).version \o ")"
                 ELSE d : d \in listed }
      sys == getSystemDockerVersion(c)
  IN IF globMatch(pattern, "system")
     THEN [ versions |-> names \cup (IF ~sys.err
                                     THEN { "system (" \o sys.version \o ")" } ELSE {}),
            proc |-> sys.proc ]
     ELSE [ versions |-> names, proc |-> c ]

isVersionInstalled(c, version) == getInstalledVersions(c, version).versions # {}

aliasExists(c, name) == name \in DOMAIN c.ali

getDockerVersionVar(c) == TrimSpace(c.dockerVersion)

(***************************************************************************)
(* One invocation.  c is the process while a command runs: the managed     *)
(* directory as it changes it (inst, ali, script), the executable (dvm),   *)
(* its PATH, its exit code (Running until die() or the end of the          *)
(* command), the install outcomes still to be met (env), and a record of   *)
(* what it did.                                                            *)
(***************************************************************************)
Begin(dockerVersion, env) ==
  [ inst |-> installed, ali |-> aliases, script |-> script, dvm |-> dvmVersion,
    path |-> shellPath, exit |-> Running,
    dockerVersion |-> dockerVersion, env |-> env,
    met |-> << >>, looked |-> << >>, downloads |-> << >>, wrote |-> FALSE,
    upgraded |-> FALSE, out |-> {}, warn |-> {} ]

\* writeInfo / writeWarning: a line on stdout, in the warning colour or not
writeInfo(c, line) == [c EXCEPT !.out = @ \cup {line}]
writeWarning(c, line) == [c EXCEPT !.warn = @ \cup {line}]

\* die(): prints the message and exits the process with the code
die(c, code) == [c EXCEPT !.exit = code]

\* writeFile(buildDvmOutputScriptPath(), buildPathScript())
writePathScript(c) == [c EXCEPT !.script = <<c.path>>, !.wrote = TRUE]

prependDvmVersionToPath(c, version) ==
  [c EXCEPT !.path = prependPath(getVersionDir(version), @)]

\* getAvailableVersions when the network is as outcome e says: the exit
\* code of its die() (Running if none) and the versions
getAvailableVersions(e, pattern) ==
  IF e = "netfail" THEN [exit |-> retCodeRuntimeError, versions |-> {}]
  ELSE IF ~regexpCompiles(Chars(pattern))
    THEN [exit |-> retCodeInvalidOperation, versions |-> {}]
  ELSE [exit |-> Running, versions |-> filterTags(tags, pattern)]

\* versionExists answering true for every version
versionExistsAny(e, version) == [exit |-> Running, found |-> TRUE]

versionExists(e, version) ==
  LET available == getAvailableVersions(e, version)
  IN IF version = "experimental" THEN [exit |-> Running, found |-> TRUE]
     ELSE [exit |-> available.exit, found |-> version \in available.versions]

listRemote(c, e, pattern) ==
  LET available == getAvailableVersions(e, pattern)
  IN IF available.exit # Running THEN die(c, available.exit)
     ELSE [c EXCEPT !.out = available.versions]

\* downloadFileWithChecksum(url, binaryPath) under install outcome e
downloadFileWithChecksum(c, e, version) ==
  IF e \in {"netfail", "dlfail"} THEN die(c, retCodeRuntimeError)
  ELSE LET build == IF version = "experimental" THEN e ELSE version
       IN [c EXCEPT
             !.inst = [d \in DOMAIN c.inst \cup {version} |->
                         IF d = version THEN build ELSE c.inst[d]],
             !.downloads = Append(@, [version |-> version, build |-> build])]

\* os.RemoveAll(versionDir)
removeVersionDir(c, version) ==
  [c EXCEPT !.inst = [d \in DOMAIN c.inst \ {version} |-> c.inst[d]]]

\* activation that leaves the previous managed entries on the PATH
activateKeepPrevious(c, version) ==
  writePathScript(prependDvmVersionToPath(c, version))

\* the steps of use() once the version is resolved and installed
activate(c, version) ==
  writePathScript(prependDvmVersionToPath(removePreviousDvmVersionFromPath(c), version))

RECURSIVE use(_, _)
RECURSIVE install(_, _)

\* an ensureVersionIsInstalled that emits the activation before installing
ensureVersionIsInstalledWritten(c, version) ==
  IF isVersionInstalled(c, version) THEN c
  ELSE install(writePathScript(prependDvmVersionToPath(c, version)), version)

\* the process goes on as isVersionInstalled found it: the PATH it strips
\* for the system lookup is stripped again by the activation that follows
ensureVersionIsInstalled(c, version) ==
  IF isVersionInstalled(c, version) THEN c ELSE install(c, version)

use(c, token) ==
  LET version == IF token = "" THEN getDockerVersionVar(c) ELSE token
  IN IF version = "" THEN die(c, retCodeInvalidOperation)
     ELSE IF version = "system"
       THEN LET sys == getSystemDockerVersion(c)
            IN IF sys.err THEN die(sys.proc, retCodeInvalidOperation)
               ELSE writePathScript(removePreviousDvmVersionFromPath(sys.proc))
     ELSE LET c1 == [c EXCEPT !.looked = Append(@, version)]
              aliased == IF aliasExists(c, version) THEN c.ali[version] ELSE version
              c2 == ensureVersionIsInstalled(c1, aliased)
          IN IF c2.exit # Running THEN c2 ELSE activate(c2, aliased)

\* an install() call meets the next outcome of env; with none left the
\* command is cut off
install(c, token) ==
  LET version == IF token = "" THEN getDockerVersionVar(c) ELSE token
      e == Head(c.env)
      c1 == [c EXCEPT !.env = Tail(@), !.met = Append(@, e)]
      exists == versionExists(e, version)
      c2 == IF version = "experimental" /\ version \in DOMAIN c1.inst
            THEN removeVersionDir(c1, version) ELSE c1
      c3 == downloadFileWithChecksum(c2, e, version)
  IN IF version = "" THEN die(c, retCodeInvalidArgument)
     ELSE IF c.env = << >> THEN die(c, CutOff)
     ELSE IF exists.exit # Running THEN die(c1, exists.exit)
     ELSE IF ~exists.found THEN die(c1, retCodeInvalidOperation)
     ELSE IF version \in DOMAIN c2.inst
       THEN use(writeWarning(c2, version \o " is already installed"), version)
     ELSE IF c3.exit # Running THEN c3
     ELSE use(c3, version)

\* uninstall that removes every version directory
uninstallAll(c, version) ==
  LET cur == getCurrentDockerVersion(c)
  IN IF version = "" THEN die(c, retCodeInvalidArgument)
     ELSE IF cur.version = version THEN die(cur.proc, retCodeInvalidOperation)
     ELSE IF version \notin DOMAIN c.inst
       THEN writeWarning(cur.proc, version \o " is not installed.")
     ELSE [cur.proc EXCEPT !.inst = [d \in {} |-> ""]]

uninstall(c, version) ==
  LET cur == getCurrentDockerVersion(c)
  IN IF version = "" THEN die(c, retCodeInvalidArgument)
     ELSE IF cur.version = version THEN die(cur.proc, retCodeInvalidOperation)
     ELSE IF version \notin DOMAIN c.inst
       THEN writeWarning(cur.proc, version \o " is not installed.")
     ELSE removeVersionDir(cur.proc, version)

alias(c, name, version) ==
  LET c1 == getInstalledVersions(c, version).proc
  IN IF name = "" \/ version = "" THEN die(c, retCodeInvalidArgument)
     ELSE IF ~isVersionInstalled(c, version) THEN die(c1, retCodeInvalidArgument)
     ELSE [c1 EXCEPT !.ali = [a \in DOMAIN c.ali \cup {name} |->
                               IF a = name THEN version ELSE c.ali[a]]]

unalias(c, name) ==
  IF name = "" THEN die(c, retCodeInvalidArgument)
  ELSE IF ~aliasExists(c, name) THEN writeWarning(c, name \o " is not an alias.")
  ELSE [c EXCEPT !.ali = [a \in DOMAIN c.ali \ {name} |-> c.ali[a]]]

deactivate(c) == writePathScript(removePreviousDvmVersionFromPath(c))

current(c) ==
  LET cur == getCurrentDockerVersion(c)
  IN IF cur.err THEN writeWarning(cur.proc, "N/A")
     ELSE writeInfo(cur.proc, cur.version)

\* prints where docker resolves, if it does
which(c) ==
  LET cur == getCurrentDockerPath(c)
  IN IF ~cur.err THEN writeInfo(c, cur.path.dir) ELSE c

\* prints the installed versions matching pattern*, the current one in
\* green behind an arrow
list(c, pattern) ==
  LET versions == getInstalledVersions(c, pattern \o "*")
      cur == getCurrentDockerVersion(versions.proc)
  IN [cur.proc EXCEPT !.out = versions.versions]

(***************************************************************************)
(* SelfUpgrader                                                            *)
(***************************************************************************)
\* semver.Make: <<major, minor, patch>>, or << >> for a parse error
semverMake(s) ==
  CASE s = "0.1.0" -> <<0, 1, 0>>
    [] s = "0.2.0" -> <<0, 2, 0>>
    [] OTHER       -> << >>

\* Version.Compare(o) > 0
semverGreater(a, b) ==
  \/ a[1] > b[1]
  \/ a[1] = b[1] /\ a[2] > b[2]
  \/ a[1] = b[1] /\ a[2] = b[2] /\ a[3] > b[3]

\* under release outcome rel
isUpgradeAvailable(c, rel) ==
  IF rel = "fail" THEN [should |-> FALSE, latest |-> ""]
  ELSE IF semverMake(c.dvm) = << >> THEN [should |-> FALSE, latest |-> ""]
  ELSE IF semverMake(rel) = << >> THEN [should |-> FALSE, latest |-> ""]
  ELSE [should |-> semverGreater(semverMake(rel), semverMake(c.dvm)), latest |-> rel]

\* upgradeSelf(version): replaces the running executable
upgradeSelf(c, version) == [c EXCEPT !.dvm = version, !.upgraded = TRUE]

\* upgrade that ignores --check
upgradeToAlways(c, checkOnly, version) == upgradeSelf(c, version)

\* the end of upgrade() once the version is known
upgradeTo(c, checkOnly, version) ==
  IF checkOnly THEN c ELSE upgradeSelf(c, version)

upgrade(c, checkOnly, version, rel) ==
  LET avail == isUpgradeAvailable(c, rel)
  IN IF version # "" /\ c.dvm = version THEN c
     ELSE IF version = ""
       THEN IF ~avail.should THEN c ELSE upgradeTo(c, checkOnly, avail.latest)
     ELSE upgradeTo(c, checkOnly, version)

(***************************************************************************)
(* Commands.  Each is one invocation of dvm-helper by the shell wrapper,   *)
(* which then sources the script the invocation wrote if it returned 0.    *)
(***************************************************************************)
ExitCode(c) == IF c.exit = Running THEN retCodeSuccess ELSE c.exit

\* from is the PATH the invocation inherited, met the install outcomes it
\* met, looked the names it looked up as aliases, out what it listed
Done(op, args, c) ==
  [ op |-> op, args |-> args, exit |-> ExitCode(c), from |-> shellPath,
    met |-> c.met, looked |-> c.looked, downloads |-> c.downloads,
    wrote |-> c.wrote, upgraded |-> c.upgraded, out |-> c.out,
    warn |-> c.warn, path |-> getPath(c) ]

\* what a finished invocation leaves behind
Finish(op, args, c) ==
  /\ installed' = c.inst
  /\ aliases' = c.ali
  /\ script' = c.script
  /\ dvmVersion' = c.dvm
  /\ shellPath' = IF c.wrote /\ ExitCode(c) = retCodeSuccess THEN c.script[1] ELSE shellPath
  /\ last' = Done(op, args, c)
  /\ UNCHANGED <<sysDocker, tags>>

\* the runs of install(token) over the install outcomes it may meet: a run
\* cut off for want of an outcome is rerun with each next outcome
RECURSIVE installRuns(_, _, _)
installRuns(token, dockerVersion, env) ==
  LET c == install(Begin(dockerVersion, env), token)
  IN IF c.exit = CutOff /\ Len(env) < MaxInstalls
     THEN UNION { installRuns(token, dockerVersion, Append(env, o)) : o \in InstallOutcomes }
     ELSE { c }

RECURSIVE useRuns(_, _, _)
useRuns(token, dockerVersion, env) ==
  LET c == use(Begin(dockerVersion, env), token)
  IN IF c.exit = CutOff /\ Len(env) < MaxInstalls
     THEN UNION { useRuns(token, dockerVersion, Append(env, o)) : o \in InstallOutcomes }
     ELSE { c }

Install(token, dockerVersion) ==
  \E c \in installRuns(token, dockerVersion, << >>) :
    Finish("install", <<token, dockerVersion>>, c)

Use(token, dockerVersion) ==
  \E c \in useRuns(token, dockerVersion, << >>) :
    Finish("use", <<token, dockerVersion>>, c)

Uninstall(token) ==
  Finish("uninstall", <<token>>, uninstall(Begin("", << >>), token))

Alias(name, token) ==
  Finish("alias", <<name, token>>, alias(Begin("", << >>), name, token))

Unalias(name) ==
  Finish("unalias", <<name>>, unalias(Begin("", << >>), name))

Deactivate ==
  Finish("deactivate", << >>, deactivate(Begin("", << >>)))

Current ==
  Finish("current", << >>, current(Begin("", << >>)))

Which ==
  Finish("which", << >>, which(Begin("", << >>)))

List(pattern) ==
  Finish("list", <<pattern>>, list(Begin("", << >>), pattern))

ListRemote(pattern, e) ==
  Finish("list-remote", <<pattern>>, listRemote(Begin("", << >>), e, pattern))

\* the step of install() that asks versionExists, the network as e says:
\* out holds the version if the answer is true
VersionExists(version, e) ==
  LET exists == versionExists(e, version)
      c == Begin("", << >>)
  IN Finish("versionExists", <<version, e>>,
            IF exists.exit # Running THEN die(c, exists.exit)
            ELSE IF exists.found THEN writeInfo(c, version)
            ELSE c)

Upgrade(checkOnly, version, rel) ==
  Finish("upgrade", <<checkOnly, version, rel>>,
         upgrade(Begin("", << >>), checkOnly, version, rel))

(***************************************************************************)
(* Specifications.                                                         *)
(***************************************************************************)
EmptyDir == [d \in {} |-> ""]
NoCommand ==
  [ op |-> "none", args |-> << >>, exit |-> retCodeSuccess, from |-> << >>,
    met |-> << >>, looked |-> << >>, downloads |-> << >>, wrote |-> FALSE,
    upgraded |-> FALSE, out |-> {}, warn |-> {}, path |-> << >> ]

\* a fresh managed directory; the shell's PATH is any of paths, the
\* upstream tag list any of tagLists
InitWith(paths, tagLists) ==
  /\ installed = EmptyDir
  /\ aliases = EmptyDir
  /\ script = << >>
  /\ shellPath \in paths
  /\ sysDocker \in SysDockers
  /\ tags \in tagLists
  /\ dvmVersion = "0.1.0"
  /\ last = NoCommand

\* $DOCKER_VERSION is read only when no version is given
EnvFor(token) == IF token = "" THEN DockerVersionEnvs ELSE { "" }

(***************************************************************************)
(* Spec: versions, missing arguments, unknown versions, patterns, system.  *)
(***************************************************************************)
\* what the user may type as a version
Tokens == { "", "1.9.0", "latest", "1.*", "system" }
\* the alias commands the user may type: <<name, version>>
AliasArgs == { <<"latest", "1.9.0">>, <<"latest", "1.*">> }

Init == InitWith({ <<OtherBin, SysBin>> }, { MainTags })

Next ==
  \/ \E token \in Tokens : \E dv \in EnvFor(token) : Install(token, dv)
  \/ \E token \in Tokens : \E dv \in EnvFor(token) : Use(token, dv)
  \/ \E token \in Tokens : Uninstall(token)
  \/ \E a \in AliasArgs : Alias(a[1], a[2])
  \/ Unalias("latest")
  \/ Deactivate

Spec == Init /\ [][Next]_vars

(***************************************************************************)
(* SpecAlias: alias records, also ones named like a version.               *)
(***************************************************************************)
TokensAlias == { "1.9.0", "1.10.0", "latest" }
AliasArgsAlias ==
  { <<"latest", "1.10.0">>, <<"1.10.0", "1.9.0">>, <<"latest", "system">>,
    <<"latest", "1.*">>, <<"latest", "">>, <<"", "1.9.0">> }

NextAlias ==
  \/ \E token \in TokensAlias : Install(token, "")
  \/ \E token \in TokensAlias : Use(token, "")
  \/ \E token \in TokensAlias : Uninstall(token)
  \/ \E a \in AliasArgsAlias : Alias(a[1], a[2])
  \/ \E name \in { "latest", "1.10.0" } : Unalias(name)

SpecAlias == Init /\ [][NextAlias]_vars

(***************************************************************************)
(* SpecExp: the experimental channel beside one release.                   *)
(***************************************************************************)
TokensExp == { "1.9.0", "experimental" }
AliasArgsExp ==
  { <<"experimental", "1.9.0">>, <<"latest", "experimental">> }

NextExp ==
  \/ \E token \in TokensExp : Install(token, "")
  \/ \E token \in TokensExp : Use(token, "")
  \/ \E token \in TokensExp : Uninstall(token)
  \/ \E a \in AliasArgsExp : Alias(a[1], a[2])
  \/ \E name \in { "experimental", "latest" } : Unalias(name)

SpecExp == Init /\ [][NextExp]_vars

(***************************************************************************)
(* SpecPath: any PATH to start from.                                       *)
(***************************************************************************)
InitEntries == { SysBin, OtherBin, getVersionDir("1.9.0") }
TokensPath == { "1.9.0", "1.10.0", "system" }

InitPath == InitWith(SeqsUpTo(InitEntries, MaxPath), { MainTags })

NextPath ==
  \/ \E token \in TokensPath : Install(token, "")
  \/ \E token \in TokensPath : Use(token, "")
  \/ Deactivate

SpecPath == InitPath /\ [][NextPath]_vars

(***************************************************************************)
(* SpecUpgrade: dvm upgrade beside installs of one release.                *)
(***************************************************************************)
ExplicitVersions == { "", "0.1.0", "0.2.0" }

NextUpgrade ==
  \/ \E checkOnly \in BOOLEAN : \E version \in ExplicitVersions :
       \E rel \in ReleaseOutcomes : Upgrade(checkOnly, version, rel)
  \/ Install("1.9.0", "")
  \/ Use("system", "")
  \/ Uninstall("1.9.0")
  \/ Alias("latest", "1.9.0")

SpecUpgrade == Init /\ [][NextUpgrade]_vars

(***************************************************************************)
(* SpecCatalog: dvm list-remote over any upstream tag list.                *)
(***************************************************************************)
Patterns == { "", "1.9.0", "1.*", "*" }

InitCatalog == InitWith({ <<OtherBin, SysBin>> }, SUBSET TagUniverse)

\* the versions install() may ask versionExists about
TokensCatalog == { "1.9.0", "10.0.0", "1.*", "*", "latest", "experimental" }

NextCatalog ==
  \/ \E pattern \in Patterns : \E e \in { "netfail", "" } : ListRemote(pattern, e)
  \/ \E version \in TokensCatalog : \E e \in { "netfail", "" } : VersionExists(version, e)

SpecCatalog == InitCatalog /\ [][NextCatalog]_vars

(***************************************************************************)
(* SpecQuery: the queries beside activation, also with a system docker     *)
(* whose -v output is not the expected line.                               *)
(***************************************************************************)
SysDockersQuery == SysDockers \cup { "" }
TokensQuery == { "1.9.0", "experimental", "system" }
ListPatterns == { "", "1.9.0" }

InitQuery ==
  /\ installed = EmptyDir
  /\ aliases = EmptyDir
  /\ script = << >>
  /\ shellPath = <<OtherBin, SysBin>>
  /\ sysDocker \in SysDockersQuery
  /\ tags = MainTags
  /\ dvmVersion = "0.1.0"
  /\ last = NoCommand

NextQuery ==
  \/ \E token \in TokensQuery : Install(token, "")
  \/ \E token \in TokensQuery : Use(token, "")
  \/ \E token \in TokensQuery : Uninstall(token)
  \/ Alias("latest", "1.9.0")
  \/ Deactivate
  \/ Current
  \/ Which
  \/ \E pattern \in ListPatterns : List(pattern)

SpecQuery == InitQuery /\ [][NextQuery]_vars

(***************************************************************************)
(* SpecStrip: the stripping of managed entries, from any PATH.             *)
(***************************************************************************)
StripEntries == { SysBin, OtherBin, getVersionDir("1.9.0"), getVersionDir("experimental") }

InitStrip == InitWith(SeqsUpTo(StripEntries, MaxPath + 1), { MainTags })

NextStrip ==
  \/ Deactivate
  \/ Use("system", "")

SpecStrip == InitStrip /\ [][NextStrip]_vars

(***************************************************************************)
(* Properties.                                                             *)
(***************************************************************************)
\* the process a query command would run as in the current state
Proc == Begin("", << >>)
\* the managed entries of a PATH, in order
Managed(path) == SelectSeq(path, LAMBDA e : e.managed)
\* the versions of the remote catalog
Catalog == filterTags(tags, "")
\* the version a command resolves its token to before any alias lookup
Requested(l) == IF l.args[1] = "" THEN TrimSpace(l.args[2]) ELSE l.args[1]
\* docker resolves on the shell's PATH into the version directory of v
Active(v) == getCurrentDockerPath(Proc).path = getVersionDir(v)

\* C1: use(a) for an alias a with stored target v looks up only a as an
\* alias, never v (also when v has to be installed first), and when it
\* succeeds the emitted PATH holds the directory of v, first, as its only
\* managed entry.
Claim_C1 ==
  [][ (last'.op = "use" /\ last'.args[1] \in DOMAIN aliases) =>
        LET a == last'.args[1]
            v == aliases[a]
        IN /\ last'.looked = <<a>>
           /\ last'.exit = retCodeSuccess =>
                /\ script' # << >>
                /\ Managed(script'[1]) = <<getVersionDir(v)>>
                /\ Head(script'[1]) = getVersionDir(v) ]_vars

\* C2: uninstall(v) of the version docker currently resolves to exits with
\* InvalidOperation and leaves the installed directories, the alias
\* records and the emitted script as they were.
Claim_C2 ==
  [][ (last'.op = "uninstall" /\ Active(last'.args[1])) =>
        /\ last'.exit = retCodeInvalidOperation
        /\ UNCHANGED <<installed, aliases, script>> ]_vars

\* C3: after a successful use(v) or install(v), v not "system", from any
\* PATH, the emitted PATH holds exactly one managed entry and it is the
\* first entry.
Claim_C3 ==
  (last.op \in {"use", "install"} /\ last.exit = retCodeSuccess
     /\ Requested(last) # "system") =>
    /\ script # << >>
    /\ Len(Managed(script[1])) = 1
    /\ Head(script[1]).managed

\* C3 witness: a use of 1.10.0 succeeded from a PATH that held several
\* managed entries.
Witness_C3 ==
  /\ last.op = "use" /\ last.args[1] = "1.10.0" /\ last.exit = retCodeSuccess
  /\ Len(Managed(last.from)) >= 2
  /\ script = << <<getVersionDir("1.10.0")>> \o removePath(last.from) >>

\* C4: when install(v) of a catalog version v succeeds, the directory of v
\* is the first entry of the emitted PATH and the current-version lookup
\* that follows reports v, whatever alias records exist.
Claim_C4 ==
  (last.op = "install" /\ last.exit = retCodeSuccess /\ last.args[1] \in Catalog) =>
    /\ script # << >>
    /\ script[1] # << >>
    /\ Head(script[1]) = getVersionDir(last.args[1])
    /\ ~getCurrentDockerVersion(Proc).err
    /\ getCurrentDockerVersion(Proc).version = last.args[1]

\* C5: alias(a, v) writes the record a -> v exactly when a directory named
\* v is installed; for any other v it exits with InvalidArgument and
\* leaves the alias records as they were.
Claim_C5 ==
  [][ (last'.op = "alias" /\ last'.args[1] # "") =>
        LET a == last'.args[1]
            v == last'.args[2]
        IN IF v \in DOMAIN installed
           THEN /\ last'.exit = retCodeSuccess
                /\ aliases' = [x \in DOMAIN aliases \cup {a} |->
                                 IF x = a THEN v ELSE aliases[x]]
           ELSE /\ last'.exit = retCodeInvalidArgument
                /\ aliases' = aliases ]_vars

InstalledExperimental(l) ==
  l.op = "install" /\ l.args[1] = "experimental" /\ l.exit = retCodeSuccess

\* C6: after two successive successful install("experimental") commands
\* the experimental directory holds the build of the second command's
\* (last) download, and the current-version lookup reports
\* "experimental (<that build>)".
Claim_C6 ==
  [][ (InstalledExperimental(last) /\ InstalledExperimental(last')) =>
        /\ "experimental" \in DOMAIN installed'
        /\ last'.downloads # << >>
        /\ installed'["experimental"] = last'.downloads[Len(last'.downloads)].build
        /\ ~getCurrentDockerVersion(Proc)'.err
        /\ getCurrentDockerVersion(Proc)'.version =
             "experimental (" \o installed'["experimental"] \o ")" ]_vars

\* C7: use and install without a version and without $DOCKER_VERSION both
\* exit with InvalidArgument and change nothing.
Claim_C7 ==
  [][ (last'.op \in {"use", "install"} /\ Requested(last') = "") =>
        /\ last'.exit = retCodeInvalidArgument
        /\ UNCHANGED <<installed, aliases, script, shellPath>> ]_vars

\* a tag of the shape vMAJOR.MINOR.PATCH, three runs of digits, MAJOR >= 1
IsStrictTag(t) ==
  LET a == RunEnd(t, 2, Digits)
      b == RunEnd(t, a + 1, Digits)
      c == RunEnd(t, b + 1, Digits)
  IN /\ Len(t) >= 1 /\ t[1] = "v"
     /\ a > 2 /\ a <= Len(t) /\ t[a] = "."
     /\ b > a + 1 /\ b <= Len(t) /\ t[b] = "."
     /\ c > b + 1 /\ c = Len(t) + 1
     /\ \E i \in 2..(a - 1) : t[i] # "0"

\* C8: list-remote with the empty pattern lists exactly the upstream tags
\* of the shape vMAJOR.MINOR.PATCH with MAJOR >= 1, each without its v.
Claim_C8 ==
  (last.op = "list-remote" /\ last.args = <<"">> /\ last.exit = retCodeSuccess) =>
    last.out = { Str(Tail(Chars(g))) : g \in { t \in tags : IsStrictTag(Chars(t)) } }

\* the command reaches install(v): it is install(v), or use of a token
\* that resolves to v with v not installed
ReachesInstall(l, v) ==
  \/ l.op = "install" /\ v = Requested(l) /\ v # ""
  \/ /\ l.op = "use" /\ Requested(l) \notin {"", "system"}
     /\ v = IF Requested(l) \in DOMAIN aliases THEN aliases[Requested(l)] ELSE Requested(l)
     /\ ~isVersionInstalled(Proc, v)

UnknownVersions == (Strings \ {"", "experimental"}) \ Catalog

\* nothing of the managed directory or the shell changed, nothing was
\* downloaded, no script was written
NoMutation ==
  /\ UNCHANGED <<installed, aliases, script, shellPath>>
  /\ last'.downloads = << >>
  /\ ~last'.wrote

\* C9: a command that reaches install(v) for a v that is neither
\* "experimental" nor in the remote catalog exits with InvalidOperation
\* before any mutation.
Claim_C9 ==
  [][ \A v \in UnknownVersions : ReachesInstall(last', v) =>
        last'.exit = retCodeInvalidOperation /\ NoMutation ]_vars

\* C9 amended: as C9 when the tag list is fetched; when the fetch fails the
\* exit code is RuntimeError, again before any mutation.
Amended_C9 ==
  [][ \A v \in UnknownVersions : ReachesInstall(last', v) =>
        /\ Len(last'.met) = 1
        /\ last'.exit = IF last'.met[1] = "netfail" THEN retCodeRuntimeError
                        ELSE retCodeInvalidOperation
        /\ NoMutation ]_vars

\* C9 witness: use of the pattern 1.* with no 1.x installed reached
\* install, met a reachable network and exited with InvalidOperation.
Witness_C9 ==
  /\ last.op = "use" /\ last.args[1] = "1.*"
  /\ last.met # << >> /\ last.met[1] # "netfail"
  /\ last.exit = retCodeInvalidOperation

\* C10: upgrade with checkOnly never replaces the executable and changes
\* no installed version, alias record, script or PATH.
Claim_C10 ==
  [][ (last'.op = "upgrade" /\ last'.args[1] = TRUE) =>
        /\ ~last'.upgraded
        /\ UNCHANGED <<dvmVersion, installed, aliases, script, shellPath>> ]_vars

\* C10 witness: a check-only upgrade found a newer release while a
\* version was installed.
Witness_C10 ==
  /\ last.op = "upgrade" /\ last.args = <<TRUE, "", "0.2.0">>
  /\ dvmVersion = "0.1.0"
  /\ "1.9.0" \in DOMAIN installed

\* docker resolves on the shell's PATH, but what the binary prints for -v
\* is not the expected line
Unparseable ==
  /\ ~getCurrentDockerPath(Proc).err
  /\ getDockerVersion(Proc, getCurrentDockerPath(Proc).path).err

\* C11: current() prints the warning "N/A" and nothing else, and succeeds,
\* both when docker does not resolve on the PATH and when it resolves but
\* its version output cannot be parsed.
Claim_C11 ==
  [][ (last'.op = "current" /\ (getCurrentDockerPath(Proc).err \/ Unparseable)) =>
        /\ last'.exit = retCodeSuccess
        /\ last'.warn = {"N/A"}
        /\ last'.out = {} ]_vars

\* C12: use("system") exits with InvalidOperation exactly when docker does
\* not resolve on the PATH with the managed entries stripped; when it
\* resolves, the emitted PATH is the inherited one without its managed
\* entries, no alias is looked up and nothing is installed.
Claim_C12 ==
  [][ (last'.op = "use" /\ Requested(last') = "system") =>
        IF getSystemDockerPath(Proc).err
        THEN last'.exit = retCodeInvalidOperation
        ELSE /\ last'.exit = retCodeSuccess
             /\ script' = <<removePath(shellPath)>>
             /\ last'.looked = << >>
             /\ last'.downloads = << >>
             /\ installed' = installed ]_vars

\* C13: install(v) of a release v whose directory exists, once the catalog
\* has answered, downloads nothing, leaves every version directory as it
\* was and activates v.
Claim_C13 ==
  [][ ( /\ last'.op = "install" /\ last'.args[1] # "experimental"
        /\ last'.args[1] \in DOMAIN installed
        /\ last'.met # << >> /\ last'.met[1] # "netfail" ) =>
        /\ last'.downloads = << >>
        /\ installed' = installed
        /\ last'.exit = retCodeSuccess
        /\ script' # << >>
        /\ Head(script'[1]) = getVersionDir(last'.args[1]) ]_vars

\* the entries of a PATH outside the managed bin root, in order
NonManaged(path) == SelectSeq(path, LAMBDA e : ~e.managed)

DownloadedVersions(l) == [i \in 1..Len(l.downloads) |-> l.downloads[i].version]

\* C15: every use and install command ends, by completion or by a fatal
\* exit, without needing a further install() call, and downloads no
\* version twice.
Claim_C15 ==
  last.op \in {"use", "install"} =>
    /\ last.exit # CutOff
    /\ \A i, j \in 1..Len(last.downloads) :
         DownloadedVersions(last)[i] = DownloadedVersions(last)[j] => i = j

\* C16: versionExists(v) answers true for "experimental" and otherwise
\* answers, and exits, exactly as the membership test of v in
\* getAvailableVersions("") does.
Claim_C16 ==
  last.op = "versionExists" =>
    LET v == last.args[1]
        all == getAvailableVersions(last.args[2], "")
    IN IF v = "experimental"
       THEN last.exit = retCodeSuccess /\ last.out = {v}
       ELSE IF all.exit # Running
         THEN last.exit = all.exit
       ELSE last.exit = retCodeSuccess /\ last.out = {v} \cap all.versions

\* the exit codes of die()
FatalExits == { retCodeInvalidArgument, retCodeInvalidOperation, retCodeRuntimeError }

\* C17: a use, install, uninstall, alias or unalias command that ends in a
\* fatal exit has not written the activation script, which stays as it was.
Claim_C17 ==
  [][ ( /\ last'.op \in {"use", "install", "uninstall", "alias", "unalias"}
        /\ last'.exit \in FatalExits ) =>
        /\ ~last'.wrote
        /\ script' = script ]_vars

\* C17 witness: with a script emitted earlier, a use that had to install
\* died on the download.
Witness_C17 ==
  /\ last.op = "use" /\ last.exit = retCodeRuntimeError
  /\ last.met = <<"dlfail">>
  /\ script # << >> /\ ~last.wrote

\* C18: current, which and list leave the process PATH at exit as it was
\* inherited and leave the shell's PATH, the installed directories, the
\* alias records and the emitted script unchanged; so does uninstall,
\* but for the directory it removes.
Claim_C18 ==
  [][ /\ last'.op \in {"current", "which", "list"} =>
           /\ last'.path = last'.from
           /\ UNCHANGED <<shellPath, installed, aliases, script>>
      /\ last'.op = "uninstall" =>
           /\ last'.path = last'.from
           /\ UNCHANGED <<shellPath, aliases, script>>
           /\ last'.exit # retCodeSuccess => UNCHANGED installed ]_vars

\* C18 witness: list ran with a managed entry on the PATH, an alias record
\* and an emitted script, and listed the system docker it found with the
\* managed entries stripped.
Witness_C18 ==
  /\ last.op = "list" /\ last.args = <<"">>
  /\ Len(Managed(last.from)) = 1
  /\ "system (1.8.3)" \in last.out
  /\ aliases # EmptyDir /\ script # << >>
  /\ last.path = last.from

\* C19: uninstall(v) leaves every alias record, every version directory
\* other than that of v and the emitted script as they were, and creates
\* no directory; for a v that is not installed it succeeds with the
\* warning and changes nothing.
Claim_C19 ==
  [][ last'.op = "uninstall" =>
        LET v == last'.args[1]
        IN /\ aliases' = aliases
           /\ script' = script
           /\ DOMAIN installed' \subseteq DOMAIN installed
           /\ \A d \in DOMAIN installed \ {v} :
                d \in DOMAIN installed' /\ installed'[d] = installed[d]
           /\ (v # "" /\ v \notin DOMAIN installed) =>
                /\ last'.exit = retCodeSuccess
                /\ last'.warn = {v \o " is not installed."}
                /\ UNCHANGED <<installed, shellPath>> ]_vars

\* C19 witness: 1.9.0 was uninstalled while an alias record pointed at it
\* and another version stayed installed.
Witness_C19 ==
  /\ last.op = "uninstall" /\ last.args = <<"1.9.0">>
  /\ last.exit = retCodeSuccess /\ last.warn = {}
  /\ "1.9.0" \notin DOMAIN installed
  /\ "1.10.0" \in DOMAIN installed
  /\ \E a \in DOMAIN aliases : aliases[a] = "1.9.0"

====
